---- MODULE Spec2Model ----
(***************************************************************************)
(* fnlint: a filename-convention linter.                                   *)
(*                                                                         *)
(* Strings are sequences of one-character strings.  Each subsystem is      *)
(* modelled with its own specification:                                    *)
(*   SpecCase     FilenameCase::matches         (src/config/mod.rs)        *)
(*   SpecLint     lint_files / lint_name        (src/linter/mod.rs)        *)
(*   SpecVisitor  lint_filenames                (src/linter/visitor.rs)    *)
(*   SpecScan     scan_dir / is_ignored         (src/scan/scanner.rs)      *)
(*   SpecPair     two scan_dir calls on one tree                           *)
(***************************************************************************)
EXTENDS Integers, Sequences, FiniteSets

VARIABLES
  pc,        \* position of the running operation
  style,     \* matches: self
  filename,  \* matches: filename
  matched,   \* matches: returned bool
  files,     \* lint_files: files
  ext,       \* lint_files: ext
  patterns,  \* lint_files: patterns
  issues,    \* lint_files: returned Vec<Issue>
  ls,        \* lint_filenames: config.ls
  file_list, \* lint_filenames: file_list
  pending,   \* lint_filenames: keys of config.ls not yet iterated
  result,    \* lint_filenames: result
  walk,      \* scan_dir: the entries WalkDir yields, in order
  ignore,    \* scan_dir: ignore
  next,      \* scan_dir: index of the next entry of walk
  collected, \* scan_dir: the paths collected so far
  name,      \* pair of scans: the directory name N
  glob,      \* pair of scans: the double-wildcard pattern built from N
  glob_out,  \* pair of scans: outcome with the double-wildcard form
  bare_out   \* pair of scans: outcome with the bare form

caseVars == <<style, filename, matched>>
lintVars == <<files, ext, patterns, issues>>
visitorVars == <<ls, file_list, pending, result>>
scanVars == <<walk, ignore, next, collected>>
pairVars == <<name, glob, glob_out, bare_out>>
vars == <<pc, caseVars, lintVars, visitorVars, scanVars, pairVars>>

CaseIdle == style = "Lower" /\ filename = <<>> /\ matched = FALSE
LintIdle == files = <<>> /\ ext = <<>> /\ patterns = <<>> /\ issues = <<>>
VisitorIdle == ls = <<>> /\ file_list = <<>> /\ pending = {} /\ result = <<>>
ScanIdle == walk = <<>> /\ ignore = <<>> /\ next = 0 /\ collected = <<>>
PairIdle == name = <<>> /\ glob = <<>> /\ glob_out = <<>> /\ bare_out = <<>>

(***************************************************************************)
(* Bounds.                                                                 *)
(***************************************************************************)
MaxStem == 4

BoundedSeq(S, n) == UNION {[1..k -> S] : k \in 0..n}

(***************************************************************************)
(* Characters.                                                             *)
(***************************************************************************)
LowerCh == {"a","b","c","d","e","f","g","h","i","j","k","l","m",
            "n","o","p","q","r","s","t","u","v","w","x","y","z"}
UpperCh == {"A","B","C","D","E","F","G","H","I","J","K","L","M",
            "N","O","P","Q","R","S","T","U","V","W","X","Y","Z"}
DigitCh == {"0","1","2","3","4","5","6","7","8","9"}
\* what `.` of a regular expression accepts: every character but a newline
AnyCh == LowerCh \cup UpperCh \cup DigitCh \cup {"_", "-", ".", "/", "*", "("}

(***************************************************************************)
(* Regular expressions (the regex crate), as syntax trees.                 *)
(*   [t |-> "set", s |-> S]   one character of S                           *)
(*   [t |-> "cat", a |-> <<r1, ..., rn>>]                                  *)
(*   [t |-> "star", r |-> r1]   r1*                                        *)
(*   [t |-> "plus", r |-> r1]   r1+                                        *)
(*   [t |-> "eot"]              $, the end of the text                     *)
(* Ends(r, s, i) is the set of positions j such that r matches s[i+1..j].  *)
(***************************************************************************)
Set(S) == [t |-> "set", s |-> S]
Cat(a) == [t |-> "cat", a |-> a]
Star(r) == [t |-> "star", r |-> r]
Plus(r) == [t |-> "plus", r |-> r]

RECURSIVE Ends(_, _, _)
RECURSIVE CatEnds(_, _, _, _)
RECURSIVE StarEnds(_, _, _, _)

Ends(r, s, i) ==
  CASE r.t = "set" -> IF i < Len(s) /\ s[i + 1] \in r.s THEN {i + 1} ELSE {}
    [] r.t = "eot" -> IF i = Len(s) THEN {i} ELSE {}
    [] r.t = "cat" -> CatEnds(r.a, 1, s, {i})
    [] r.t = "star" -> StarEnds(r.r, s, {i}, {i})
    [] r.t = "plus" -> LET first == Ends(r.r, s, i) IN StarEnds(r.r, s, first, first)

CatEnds(a, k, s, from) ==
  IF k > Len(a) THEN from
  ELSE CatEnds(a, k + 1, s, UNION {Ends(a[k], s, j) : j \in from})

StarEnds(r, s, frontier, seen) ==
  LET more == (UNION {Ends(r, s, j) : j \in frontier}) \ seen
  IN  IF more = {} THEN seen ELSE StarEnds(r, s, more, seen \cup more)

\* a compiled Regex: the tree, and whether it starts with ^ and ends with $
Regex(re, start, end) == [re |-> re, start |-> start, end |-> end]

\* Regex::new on the text of an expression over AnyCh and `$`: a character
\* stands for itself, `.` for any character, `$` for the end of the text and
\* `*` repeats what precedes it.  A `*` with nothing before it, and a `(`
\* (no `)` can follow: AnyCh has none), are syntax errors.
RECURSIVE parse(_, _, _)
parse(text, k, acc) ==
  IF k > Len(text) THEN [ok |-> TRUE, rx |-> Regex(Cat(acc), FALSE, FALSE)]
  ELSE LET c == text[k]
       IN  CASE c = "(" -> [ok |-> FALSE, rx |-> Regex(Cat(<<>>), FALSE, FALSE)]
             [] c = "*" ->
                  IF acc = <<>> THEN [ok |-> FALSE, rx |-> Regex(Cat(<<>>), FALSE, FALSE)]
                  ELSE parse(text, k + 1,
                             Append(SubSeq(acc, 1, Len(acc) - 1), Star(acc[Len(acc)])))
             [] c = "." -> parse(text, k + 1, Append(acc, Set(AnyCh)))
             [] c = "$" -> parse(text, k + 1, Append(acc, [t |-> "eot"]))
             [] OTHER -> parse(text, k + 1, Append(acc, Set({c})))

Regex_new(text) == parse(text, 1, <<>>)

\* Regex::is_match: a search, anchored only where the expression says so
is_match(rx, s) ==
  \E i \in (IF rx.start THEN {0} ELSE 0..Len(s)) :
    LET e == Ends(rx.re, s, i)
    IN  IF rx.end THEN Len(s) \in e ELSE e # {}

(***************************************************************************)
(* src/config/mod.rs: FilenameCase, PATTERNS, FilenameCase::matches.       *)
(***************************************************************************)
FilenameCase == {"Lower", "Snake", "Camel", "Kebab", "Pascal", "Point", "ScreamingSnake"}

LowerDigit == Set(LowerCh \cup DigitCh)

\* ^[a-z0-9_]+$
snake_case == Regex(Plus(Set(LowerCh \cup DigitCh \cup {"_"})), TRUE, TRUE)
\* ^[a-z]+([A-Z][a-z0-9]*)*$
camel_case ==
  Regex(Cat(<<Plus(Set(LowerCh)), Star(Cat(<<Set(UpperCh), Star(LowerDigit)>>))>>), TRUE, TRUE)
\* ^[a-z0-9]+(-[a-z0-9]+)*$
kebab_case ==
  Regex(Cat(<<Plus(LowerDigit), Star(Cat(<<Set({"-"}), Plus(LowerDigit)>>))>>), TRUE, TRUE)
\* ^[A-Z][a-z0-9]+([A-Z][a-z0-9]*)*$
pascal_case ==
  Regex(Cat(<<Set(UpperCh), Plus(LowerDigit),
              Star(Cat(<<Set(UpperCh), Star(LowerDigit)>>))>>), TRUE, TRUE)
\* ^[a-z0-9]+$
lower_case == Regex(Plus(LowerDigit), TRUE, TRUE)
\* ^[a-z0-9]+(\.[a-z0-9]+)*$
point_case ==
  Regex(Cat(<<Plus(LowerDigit), Star(Cat(<<Set({"."}), Plus(LowerDigit)>>))>>), TRUE, TRUE)
\* ^[A-Z0-9_]+$
screaming_snake_case == Regex(Plus(Set(UpperCh \cup DigitCh \cup {"_"})), TRUE, TRUE)
\* ^[a-z0-9]+$
none_split == Regex(Plus(LowerDigit), TRUE, TRUE)

\* the style's own pattern, without the early return on none_split
matches_no_escape(self, fname) ==
  CASE self = "Snake" -> is_match(snake_case, fname)
    [] self = "Camel" -> is_match(camel_case, fname)
    [] self = "Kebab" -> is_match(kebab_case, fname)
    [] self = "Pascal" -> is_match(pascal_case, fname)
    [] self = "Lower" -> is_match(lower_case, fname)
    [] self = "Point" -> is_match(point_case, fname)
    [] self = "ScreamingSnake" -> is_match(screaming_snake_case, fname)

matches(self, fname) ==
  IF is_match(none_split, fname) THEN TRUE
  ELSE IF self \in {"Lower", "Point", "Snake", "Kebab", "Camel"} /\ is_match(none_split, fname)
       THEN TRUE
  ELSE CASE self = "Snake" -> is_match(snake_case, fname)
         [] self = "Camel" -> is_match(camel_case, fname)
         [] self = "Kebab" -> is_match(kebab_case, fname)
         [] self = "Pascal" -> is_match(pascal_case, fname)
         [] self = "Lower" -> is_match(lower_case, fname)
         [] self = "Point" -> is_match(point_case, fname)
         [] self = "ScreamingSnake" -> is_match(screaming_snake_case, fname)

(***************************************************************************)
(* SpecCase: one call of FilenameCase::matches on any style and any stem   *)
(* over StemChars of length at most MaxStem.                               *)
(***************************************************************************)
StemChars == {"a", "1", "B", "_", "-", "."}

InitCase ==
  /\ pc = "match"
  /\ style \in FilenameCase
  /\ filename \in BoundedSeq(StemChars, MaxStem)
  /\ matched = FALSE
  /\ LintIdle /\ VisitorIdle /\ ScanIdle /\ PairIdle

Matches ==
  /\ pc = "match"
  /\ matched' = matches(style, filename)
  /\ pc' = "matched"
  /\ UNCHANGED <<style, filename, lintVars, visitorVars, scanVars, pairVars>>

NextCase == Matches

SpecCase == InitCase /\ [][NextCase]_vars

IsLowerAlnum(s) == \A i \in 1..Len(s) : s[i] \in LowerCh \cup DigitCh

\* C1 as stated: every string made only of lowercase letters and digits
\* (the empty string is one) conforms to every style.
C1_AllLowerAlnumConform ==
  (pc = "matched" /\ IsLowerAlnum(filename)) => matched

\* C1, amended: every NON-EMPTY string made only of lowercase ASCII letters
\* and digits conforms to all seven styles.
C1_NonEmptyLowerAlnumConform ==
  (pc = "matched" /\ filename # <<>> /\ IsLowerAlnum(filename)) => matched

C1_Witness ==
  pc = "matched" /\ style = "ScreamingSnake" /\ filename = <<"a", "1">> /\ matched

\* ^[a-z0-9]+(_[a-z0-9]+)*$
SnakeTokens ==
  Regex(Cat(<<Plus(LowerDigit), Star(Cat(<<Set({"_"}), Plus(LowerDigit)>>))>>), TRUE, TRUE)

\* C2: Snake.matches(s) is true iff s matches ^[a-z0-9]+(_[a-z0-9]+)*$.
C2_SnakeIffTokens ==
  (pc = "matched" /\ style = "Snake") => (matched <=> is_match(SnakeTokens, filename))

\* ^([A-Z][a-z0-9]+)+$
PascalWords == Regex(Plus(Cat(<<Set(UpperCh), Plus(LowerDigit)>>)), TRUE, TRUE)

\* C3: for s not purely lowercase-alphanumeric, Pascal.matches(s) is true iff
\* s is one or more words, each an uppercase letter followed by at least one
\* lowercase letter or digit.
C3_PascalIffWords ==
  (pc = "matched" /\ style = "Pascal" /\ ~IsLowerAlnum(filename))
    => (matched <=> is_match(PascalWords, filename))

(***************************************************************************)
(* src/linter/mod.rs: Issue, lint_name, lint_files.                        *)
(***************************************************************************)
MaxFiles == 2
MaxStyles == 2

\* str::ends_with
ends_with(s, suffix) ==
  /\ Len(suffix) <= Len(s)
  /\ SubSeq(s, Len(s) - Len(suffix) + 1, Len(s)) = suffix

\* str::trim_end_matches: the suffix is removed as often as it occurs
RECURSIVE trim_end_matches(_, _)
trim_end_matches(s, pat) ==
  IF pat # <<>> /\ ends_with(s, pat)
  THEN trim_end_matches(SubSeq(s, 1, Len(s) - Len(pat)), pat)
  ELSE s

\* path.split('/').last(): what follows the last '/'
RECURSIVE last_segment(_)
last_segment(path) ==
  IF path = <<>> \/ path[Len(path)] = "/" THEN <<>>
  ELSE Append(last_segment(SubSeq(path, 1, Len(path) - 1)), path[Len(path)])

Issue(fname, target, path) == [filename |-> fname, target |-> target, path |-> path]

\* a file passes only when its name matches EVERY style
lint_name_all(path, pats, e) ==
  LET fname == trim_end_matches(last_segment(path), e)
  IN  IF pats # <<>> /\ \A k \in 1..Len(pats) : matches(pats[k], fname)
      THEN <<>>
      ELSE <<Issue(fname, pats, path)>>

\* Option<Issue>: None is <<>>, Some(issue) is <<issue>>
lint_name(path, pats, e) ==
  LET fname == trim_end_matches(last_segment(path), e)
  IN  IF \E k \in 1..Len(pats) : matches(pats[k], fname)
      THEN <<>>
      ELSE <<Issue(fname, pats, path)>>

\* files.iter().filter_map(lint_name).collect()
RECURSIVE lint_files(_, _, _)
lint_files(fs, e, pats) ==
  IF fs = <<>> THEN <<>>
  ELSE <<>> \o lint_name(Head(fs), pats, e) \o lint_files(Tail(fs), e, pats)

(***************************************************************************)
(* SpecLint: one call of lint_files.                                       *)
(***************************************************************************)
\* s/a_b.j s/aB.j s/ab.j.j .j s/a-B.t
PathPool ==
  { <<"s", "/", "a", "_", "b", ".", "j">>,
    <<"s", "/", "a", "B", ".", "j">>,
    <<"s", "/", "a", "b", ".", "j", ".", "j">>,
    <<".", "j">>,
    <<"s", "/", "a", "-", "B", ".", "t">> }

\* .j and the empty extension
LintExts == { <<".", "j">>, <<>> }

InitLint ==
  /\ pc = "lint"
  /\ files \in BoundedSeq(PathPool, MaxFiles)
  /\ ext \in LintExts
  /\ patterns \in BoundedSeq(FilenameCase, MaxStyles)
  /\ issues = <<>>
  /\ CaseIdle /\ VisitorIdle /\ ScanIdle /\ PairIdle

LintFiles ==
  /\ pc = "lint"
  /\ issues' = lint_files(files, ext, patterns)
  /\ pc' = "linted"
  /\ UNCHANGED <<files, ext, patterns, caseVars, visitorVars, scanVars, pairVars>>

NextLint == LintFiles

SpecLint == InitLint /\ [][NextLint]_vars

\* the stem of a file conforms to none of the styles
FailsAll(path, pats, e) ==
  \A k \in 1..Len(pats) : ~matches(pats[k], trim_end_matches(last_segment(path), e))

MaxListed == 2
MaxRuleSet == 1

\* every file is handed to lint_files, whatever its extension
all_files(list, e) == list

\* file_list.iter().filter(|file| file.ends_with(ext)).cloned().collect()
ext_files(list, e) == SelectSeq(list, LAMBDA f : ends_with(f, e))

\* the extension keys of the configurations: .j .t and the empty extension
ExtPool == { <<".", "j">>, <<".", "t">>, <<>> }

\* the styles the configurations of SpecVisitor are built from
VisitorStyles == {"Snake", "Kebab"}

\* the configurations: a map from some extensions to rule sets
Configs ==
  UNION { [keys -> BoundedSeq(VisitorStyles, MaxRuleSet)] : keys \in SUBSET ExtPool }

InitVisitor ==
  /\ pc = "visit"
  /\ ls \in Configs
  /\ file_list \in BoundedSeq(PathPool, MaxListed)
  /\ pending = DOMAIN ls
  /\ result = <<>>
  /\ CaseIdle /\ LintIdle /\ ScanIdle /\ PairIdle

\* one iteration of config.ls.iter().for_each
VisitExt ==
  /\ pc = "visit"
  /\ \E e \in pending :
       /\ result' = result \o lint_files(ext_files(file_list, e), e, ls[e])
       /\ pending' = pending \ {e}
  /\ UNCHANGED <<pc, ls, file_list, caseVars, lintVars, scanVars, pairVars>>

\* the iterator is exhausted: result is returned
VisitReturn ==
  /\ pc = "visit"
  /\ pending = {}
  /\ pc' = "visited"
  /\ UNCHANGED <<visitorVars, caseVars, lintVars, scanVars, pairVars>>

NextVisitor == VisitExt \/ VisitReturn

SpecVisitor == InitVisitor /\ [][NextVisitor]_vars

HasConfiguredExt(path) == \E e \in DOMAIN ls : ends_with(path, e)

\* C5: a file whose path ends with none of the configured extension keys is
\* never the path of a returned Issue.
C5_UnconfiguredNeverReported ==
  \A i \in 1..Len(result) : HasConfiguredExt(result[i].path)

\* s/a-B.t has no configured extension and a name no style accepts; the
\* configured s/aB.j is reported
C5_Witness ==
  /\ pc = "visited"
  /\ DOMAIN ls = { <<".", "j">> }
  /\ ls[<<".", "j">>] = <<"Snake">>
  /\ file_list = << <<"s", "/", "a", "-", "B", ".", "t">>, <<"s", "/", "a", "B", ".", "j">> >>
  /\ Len(result) = 1
  /\ result[1].path = <<"s", "/", "a", "B", ".", "j">>

(***************************************************************************)
(* src/scan/scanner.rs: is_ignored, scan_dir.                              *)
(***************************************************************************)
MaxNodes == 3
MaxIgnore == 2

\* str::contains
contains(s, sub) ==
  \E i \in 0..(Len(s) - Len(sub)) : SubSeq(s, i + 1, i + Len(sub)) = sub

\* a split that drops the empty segments
RECURSIVE split_nonempty(_)
split_nonempty(s) ==
  IF s = <<>> THEN <<>>
  ELSE IF \A i \in 1..Len(s) : s[i] # "/" THEN <<s>>
  ELSE LET k == CHOOSE i \in 1..Len(s) : s[i] = "/" /\ \A j \in 1..(i - 1) : s[j] # "/"
       IN  (IF k = 1 THEN <<>> ELSE <<SubSeq(s, 1, k - 1)>>)
             \o split_nonempty(SubSeq(s, k + 1, Len(s)))

\* str::split('/')
RECURSIVE split(_)
split(s) ==
  IF \A i \in 1..Len(s) : s[i] # "/" THEN <<s>>
  ELSE LET k == CHOOSE i \in 1..Len(s) : s[i] = "/" /\ \A j \in 1..(i - 1) : s[j] # "/"
       IN  <<SubSeq(s, 1, k - 1)>> \o split(SubSeq(s, k + 1, Len(s)))

\* str::replace: the non-overlapping occurrences, from the left
RECURSIVE replace(_, _, _)
replace(s, from, to) ==
  IF s = <<>> THEN <<>>
  ELSE IF Len(from) <= Len(s) /\ SubSeq(s, 1, Len(from)) = from
       THEN to \o replace(SubSeq(s, Len(from) + 1, Len(s)), from, to)
       ELSE <<Head(s)>> \o replace(Tail(s), from, to)

\* Path::file_name: None (<<>>) for `.`, else Some(last component)
file_name(path) == IF path = <<".">> THEN <<>> ELSE <<last_segment(path)>>

\* step 3: the expression built from a pattern that contains `**`
folder_glob_text(pattern) ==
  LET stripped == replace(pattern, <<"*", "*">>, <<>>)
      popped == IF stripped # <<>> /\ stripped[Len(stripped)] = "/"
                THEN SubSeq(stripped, 1, Len(stripped) - 1) ELSE stripped
  IN  popped \o <<"$">>

\* step 4: the expression built from a pattern that contains `*`
file_glob_text(pattern) == replace(pattern, <<"*">>, <<".", "*">>)

\* the closure of ignore.iter().any, without step 1 (the levels)
pattern_ignores_no_levels(entry, pattern) ==
  IF entry.is_file /\ contains(entry.path, pattern) THEN "yes"
  ELSE IF contains(pattern, <<"*", "*">>)
  THEN LET re == Regex_new(folder_glob_text(pattern))
       IN  IF ~re.ok THEN "panic"
           ELSE IF is_match(re.rx, entry.path) THEN "yes" ELSE "no"
  ELSE IF contains(pattern, <<"*">>)
  THEN IF file_name(entry.path) = <<>> THEN "panic"
       ELSE LET re == Regex_new(file_glob_text(pattern))
            IN  IF ~re.ok THEN "panic"
                ELSE IF is_match(re.rx, file_name(entry.path)[1]) THEN "yes" ELSE "no"
  ELSE "no"

\* the closure of ignore.iter().any: "yes" (true), "no" (false) or "panic"
\* (an unwrap of None or of Err)
pattern_ignores(entry, pattern) ==
  LET levels == split(pattern)
  IN  IF \E l \in 1..Len(levels) : contains(entry.path, levels[l]) THEN "yes"
      ELSE IF entry.is_file /\ contains(entry.path, pattern) THEN "yes"
      ELSE IF contains(pattern, <<"*", "*">>)
      THEN LET re == Regex_new(folder_glob_text(pattern))
           IN  IF ~re.ok THEN "panic"
               ELSE IF is_match(re.rx, entry.path) THEN "yes" ELSE "no"
      ELSE IF contains(pattern, <<"*">>)
      THEN IF file_name(entry.path) = <<>> THEN "panic"
           ELSE LET re == Regex_new(file_glob_text(pattern))
                IN  IF ~re.ok THEN "panic"
                    ELSE IF is_match(re.rx, file_name(entry.path)[1]) THEN "yes" ELSE "no"
      ELSE "no"

\* ignore.iter().any(..): the patterns in order, up to the first that matches
RECURSIVE is_ignored(_, _)
is_ignored(entry, ig) ==
  IF ig = <<>> THEN "no"
  ELSE LET r == pattern_ignores(entry, Head(ig))
       IN  IF r = "no" THEN is_ignored(entry, Tail(ig)) ELSE r

\* scan_dir over the entries of a walk from entry k on
RECURSIVE scan_from(_, _, _, _)
scan_from(w, ig, k, acc) ==
  IF k > Len(w) THEN [status |-> "ok", files |-> acc]
  ELSE LET r == is_ignored(w[k], ig)
       IN  IF r = "panic" THEN [status |-> "panic", files |-> <<>>]
           ELSE scan_from(w, ig, k + 1,
                          IF r = "no" /\ w[k].is_file THEN Append(acc, w[k].path) ELSE acc)

scan_dir(w, ig) == scan_from(w, ig, 1, <<>>)

(***************************************************************************)
(* The trees.  WalkDir yields the root first, then the entries below it,   *)
(* a directory before its content.  A tree is the root (`s` or `.`) and at *)
(* most MaxNodes of the nodes below, a node never without its parent.      *)
(***************************************************************************)
\* n/  n/p  xn  m.r  car  c.t
Nodes ==
  << [rel |-> <<"n">>, is_file |-> FALSE, parent |-> 0],
     [rel |-> <<"n", "/", "p">>, is_file |-> TRUE, parent |-> 1],
     [rel |-> <<"x", "n">>, is_file |-> TRUE, parent |-> 0],
     [rel |-> <<"m", ".", "r">>, is_file |-> TRUE, parent |-> 0],
     [rel |-> <<"c", "a", "r">>, is_file |-> TRUE, parent |-> 0],
     [rel |-> <<"c", ".", "t">>, is_file |-> TRUE, parent |-> 0] >>

Bases == { <<"s">>, <<".">> }

Trees ==
  { K \in SUBSET (1..Len(Nodes)) :
      /\ Cardinality(K) <= MaxNodes
      /\ \A k \in K : Nodes[k].parent # 0 => Nodes[k].parent \in K }

RECURSIVE walk_of(_, _, _)
walk_of(base, K, k) ==
  IF k > Len(Nodes) THEN <<>>
  ELSE (IF k \in K
        THEN << [path |-> base \o <<"/">> \o Nodes[k].rel, is_file |-> Nodes[k].is_file] >>
        ELSE <<>>) \o walk_of(base, K, k + 1)

Walks ==
  { << [path |-> b, is_file |-> FALSE] >> \o walk_of(b, K, 1) : b \in Bases, K \in Trees }

\* the ignore patterns:
\*   n  s  m.r  **/n  n/**  **/.n  *.r  n*  ***  *(  (empty)  n/
IgnorePool ==
  { <<"n">>, <<"s">>, <<"m", ".", "r">>,
    <<"*", "*", "/", "n">>, <<"n", "/", "*", "*">>, <<"*", "*", "/", ".", "n">>,
    <<"*", ".", "r">>, <<"n", "*">>,
    <<"*", "*", "*">>, <<"*", "(">>,
    <<>>, <<"n", "/">> }

(***************************************************************************)
(* SpecScan: scan_dir, one entry of the walk per step.                     *)
(***************************************************************************)
InitScan ==
  /\ pc = "scan"
  /\ walk \in Walks
  /\ ignore \in BoundedSeq(IgnorePool, MaxIgnore)
  /\ next = 1
  /\ collected = <<>>
  /\ CaseIdle /\ LintIdle /\ VisitorIdle /\ PairIdle

\* the entry passes both filters and is collected
ScanKeep ==
  /\ pc = "scan" /\ next <= Len(walk)
  /\ is_ignored(walk[next], ignore) = "no"
  /\ walk[next].is_file
  /\ collected' = Append(collected, walk[next].path)
  /\ next' = next + 1
  /\ UNCHANGED <<pc, walk, ignore, caseVars, lintVars, visitorVars, pairVars>>

\* the entry is ignored, or is not a file
ScanSkip ==
  /\ pc = "scan" /\ next <= Len(walk)
  /\ \/ is_ignored(walk[next], ignore) = "yes"
     \/ is_ignored(walk[next], ignore) = "no" /\ ~walk[next].is_file
  /\ next' = next + 1
  /\ UNCHANGED <<pc, walk, ignore, collected, caseVars, lintVars, visitorVars, pairVars>>

\* an unwrap in is_ignored panics
ScanPanic ==
  /\ pc = "scan" /\ next <= Len(walk)
  /\ is_ignored(walk[next], ignore) = "panic"
  /\ pc' = "panicked"
  /\ UNCHANGED <<scanVars, caseVars, lintVars, visitorVars, pairVars>>

\* the walk is exhausted: collect() returns
ScanReturn ==
  /\ pc = "scan" /\ next > Len(walk)
  /\ pc' = "scanned"
  /\ UNCHANGED <<scanVars, caseVars, lintVars, visitorVars, pairVars>>

NextScan == ScanKeep \/ ScanSkip \/ ScanPanic \/ ScanReturn

SpecScan == InitScan /\ [][NextScan]_vars

Collected == {collected[i] : i \in 1..Len(collected)}

FileEntries == {walk[i] : i \in {j \in 1..Len(walk) : walk[j].is_file}}
DirEntries == {walk[i] : i \in {j \in 1..Len(walk) : ~walk[j].is_file}}

\* entry f lies somewhere beneath directory d
Beneath(f, d) ==
  /\ Len(f.path) > Len(d.path) + 1
  /\ SubSeq(f.path, 1, Len(d.path) + 1) = d.path \o <<"/">>

\* C6: when is_ignored is true of a directory, no file beneath it is in the
\* result of scan_dir, even a file no pattern excludes by itself.
C6_IgnoredDirectoryPruned ==
  pc = "scanned" =>
    \A d \in DirEntries : is_ignored(d, ignore) = "yes" =>
      \A f \in FileEntries : Beneath(f, d) => f.path \notin Collected

(***************************************************************************)
(* src/scan/pattern.rs: Pattern::Glob and Pattern::matches for a glob made *)
(* of literal characters and `*` (any run of characters).                  *)
(***************************************************************************)
RECURSIVE Pattern_matches(_, _)
Pattern_matches(pattern, field) ==
  IF pattern = <<>> THEN field = <<>>
  ELSE IF Head(pattern) = "*"
       THEN \E k \in 0..Len(field) :
              Pattern_matches(Tail(pattern), SubSeq(field, k + 1, Len(field)))
       ELSE /\ field # <<>>
            /\ Head(field) = Head(pattern)
            /\ Pattern_matches(Tail(pattern), Tail(field))

\* *.r
StarDotR == <<"*", ".", "r">>

\* C8: with the ignore list [`*.r`] a file is excluded from the scan iff its
\* basename matches the glob `*.r`.
C8_FilenameGlob ==
  (pc = "scanned" /\ ignore = <<StarDotR>>) =>
    \A f \in FileEntries :
      f.path \notin Collected <=> Pattern_matches(StarDotR, last_segment(f.path))

\* the step-3 or step-4 expression of the pattern does not compile
Malformed(pattern) ==
  IF contains(pattern, <<"*", "*">>) THEN ~Regex_new(folder_glob_text(pattern)).ok
  ELSE contains(pattern, <<"*">>) /\ ~Regex_new(file_glob_text(pattern)).ok

AnyMalformed == \E k \in 1..Len(ignore) : Malformed(ignore[k])

\* C9: with a malformed pattern anywhere in the ignore list the scan fails
\* before any entry is examined: no entry is ever passed, and the scan never
\* returns.
C9_MalformedIsFatalFirst ==
  AnyMalformed => (next = 1 /\ pc # "scanned")

\* the empty pattern, or one with a leading, trailing or doubled `/`
HasEmptySegment(pattern) ==
  \/ pattern = <<>>
  \/ pattern[1] = "/"
  \/ pattern[Len(pattern)] = "/"
  \/ contains(pattern, <<"/", "/">>)

AnyEmptySegment == \E k \in 1..Len(ignore) : HasEmptySegment(ignore[k])

\* C10 as stated: with a pattern that has an empty segment, every entry is
\* excluded and scan_dir returns the empty list, for every tree.
C10_EmptySegmentReturnsEmpty ==
  AnyEmptySegment => (pc # "panicked" /\ collected = <<>>)

\* C10, amended: with a pattern that has an empty segment no entry is ever
\* kept, so scan_dir returns the empty list whenever it returns; it panics
\* instead only on a pattern with a `*` listed before every pattern that has
\* an empty segment.
C10_EmptySegmentKeepsNothing ==
  AnyEmptySegment =>
    /\ collected = <<>>
    /\ pc = "panicked" =>
         \E j \in 1..Len(ignore) :
           /\ contains(ignore[j], <<"*">>)
           /\ \A k \in 1..j : ~HasEmptySegment(ignore[k])

\* [`n/`] on a tree with the file s/m.r, which no segment of the pattern names
C10_Witness ==
  /\ pc = "scanned"
  /\ ignore = << <<"n", "/">> >>
  /\ \E f \in FileEntries : f.path = <<"s", "/", "m", ".", "r">>
  /\ collected = <<>>

(***************************************************************************)
(* SpecPair: scan_dir on one tree with the double-wildcard pattern built   *)
(* from a directory name N (`**/N` or `N/**`), and with the bare name N.   *)
(***************************************************************************)
\* n  xn  p  .n
NamePool == { <<"n">>, <<"x", "n">>, <<"p">>, <<".", "n">> }

NotRun == [status |-> "none", files |-> <<>>]

InitPair ==
  /\ pc = "pair"
  /\ walk \in Walks
  /\ name \in NamePool
  /\ glob \in { <<"*", "*", "/">> \o name, name \o <<"/", "*", "*">> }
  /\ glob_out = NotRun
  /\ bare_out = NotRun
  /\ ignore = <<>> /\ next = 0 /\ collected = <<>>
  /\ CaseIdle /\ LintIdle /\ VisitorIdle

ScanGlob ==
  /\ pc = "pair"
  /\ glob_out = NotRun
  /\ glob_out' = scan_dir(walk, <<glob>>)
  /\ UNCHANGED <<pc, name, glob, bare_out, scanVars, caseVars, lintVars, visitorVars>>

ScanBare ==
  /\ pc = "pair"
  /\ bare_out = NotRun
  /\ bare_out' = scan_dir(walk, <<name>>)
  /\ UNCHANGED <<pc, name, glob, glob_out, scanVars, caseVars, lintVars, visitorVars>>

NextPair == ScanGlob \/ ScanBare

SpecPair == InitPair /\ [][NextPair]_vars

BothRan == pc = "pair" /\ glob_out # NotRun /\ bare_out # NotRun

FilesOf(out) == {out.files[i] : i \in 1..Len(out.files)}

\* the path has a directory component called n
UnderDirNamed(path, n) ==
  \E k \in 1..(Len(split(path)) - 1) : split(path)[k] = n

PlainName(n) == \A i \in 1..Len(n) : n[i] \in LowerCh \cup UpperCh \cup DigitCh

====
